---------------------------- MODULE Spec2Model ----------------------------
(***************************************************************************)
(* A model of app.py: the citation cross-linker process_xhtml_files and    *)
(* the download_file route.                                                *)
(*                                                                         *)
(* Text is a sequence of one-character strings.  A placeholder generated   *)
(* by protect_entity ("__ENTITY_<uuid hex>__") is one element of such a    *)
(* sequence: it consists of word characters only, starts and ends with an  *)
(* underscore, and uuid4 is taken to be fresh, so no regular expression of *)
(* the program can match inside it and it behaves as a single "_".         *)
(***************************************************************************)
EXTENDS Naturals, Sequences, FiniteSets, TLC

\* A local name: Bind(v, LAMBDA x : e) is e with x standing for the value of
\* v, which is computed once (Python evaluates an assignment once).
Bind(v, F(_)) == CHOOSE r \in {F(x) : x \in {v}} : TRUE

\* The least element of a non-empty set of numbers
Least(S) == CHOOSE x \in S : \A y \in S : x <= y

\* ------------------------------------------------------------------------
\* Characters
\* ------------------------------------------------------------------------
UpperSeq == <<"A","B","C","D","E","F","G","H","I","J","K","L","M",
              "N","O","P","Q","R","S","T","U","V","W","X","Y","Z">>

LowerSeq == <<"a","b","c","d","e","f","g","h","i","j","k","l","m",
              "n","o","p","q","r","s","t","u","v","w","x","y","z">>

Range(s) == {s[k] : k \in DOMAIN s}

UpperChars == Range(UpperSeq)

LowerChars == Range(LowerSeq)

DigitChars == {"0","1","2","3","4","5","6","7","8","9"}

SpaceChars == {" ", "\n", "\t"}

\* The elements standing for generated placeholders.
IsPlaceholder(c) == Len(c) > 1

\* \w of the re module
IsWord(c) == c \in UpperChars \cup LowerChars \cup DigitChars \cup {"_"}
             \/ IsPlaceholder(c)

\* str.lower() on one character
LowerChar(c) ==
    IF c \in UpperChars
    THEN LowerSeq[CHOOSE k \in DOMAIN UpperSeq : UpperSeq[k] = c]
    ELSE c

\* str.lower()
Lower(s) == [k \in DOMAIN s |-> LowerChar(s[k])]

\* s[a:b] of Python for 0 <= a, b <= len(s): the elements a+1 .. b
Slice(s, a, b) == IF b <= a THEN <<>> ELSE SubSeq(s, a + 1, b)

\* str.strip()
RECURSIVE LStrip(_)
LStrip(s) == IF s # <<>> /\ Head(s) \in SpaceChars THEN LStrip(Tail(s)) ELSE s

RECURSIVE RStrip(_)
RStrip(s) ==
    IF s # <<>> /\ s[Len(s)] \in SpaceChars
    THEN RStrip(SubSeq(s, 1, Len(s) - 1))
    ELSE s

Strip(s) == Bind(RStrip(s), LAMBDA r : LStrip(r))

\* re.sub(r'\s', '', s)
RemoveSpace(s) == SelectSeq(s, LAMBDA c : c \notin SpaceChars)

\* \b at offset p of s (between s[p] and s[p+1], 1-based elements)
WordAt(s, k) == k >= 1 /\ k <= Len(s) /\ IsWord(s[k])

Boundary(s, p) == WordAt(s, p) # WordAt(s, p + 1)

\* ------------------------------------------------------------------------
\* The year part shared by both patterns:  (\d{4}\s*[a-z]?)\b
\* ------------------------------------------------------------------------
DigitsAt(s, p) ==
    /\ p + 4 <= Len(s)
    /\ \A k \in 1..4 : s[p + k] \in DigitChars

\* The number of whitespace elements of s from offset p on
RECURSIVE SpaceRun(_, _)
SpaceRun(s, p) ==
    IF p + 1 <= Len(s) /\ s[p + 1] \in SpaceChars THEN 1 + SpaceRun(s, p + 1) ELSE 0

\* \s*[a-z]?\b after the four digits that end at offset q, as the backtracking
\* matcher tries it: the greedy \s* first takes w whitespace elements, the
\* greedy [a-z]? is tried with a letter and then without, and only then is one
\* whitespace element given back.  The end offset of the match, 0 for none.
RECURSIVE YearTail(_, _, _)
YearTail(s, q, w) ==
    IF /\ q + w + 1 <= Len(s)
       /\ s[q + w + 1] \in LowerChars
       /\ Boundary(s, q + w + 1)
    THEN q + w + 1
    ELSE IF Boundary(s, q + w) THEN q + w
    ELSE IF w = 0 THEN 0
    ELSE YearTail(s, q, w - 1)

\* (\d{4}\s*[a-z]?)\b with the digits starting after offset p
YearEnd(s, p) ==
    IF DigitsAt(s, p)
    THEN Bind(SpaceRun(s, p + 4), LAMBDA w : YearTail(s, p + 4, w))
    ELSE 0

\* ------------------------------------------------------------------------
\* citation_pattern = ^(.*?)\b(\d{4}\s*[a-z]?)\b, used with search()
\* ------------------------------------------------------------------------
\* The offsets a at which the lazy (.*?) can stop: "." matches no newline.
AuthorStops(s) ==
    {a \in 0..Len(s) : /\ \A k \in 1..a : s[k] # "\n"
                       /\ Boundary(s, a)
                       /\ YearEnd(s, a) # 0}

citation_pattern(s) ==
    Bind(AuthorStops(s), LAMBDA stops :
        IF stops = {} THEN [found |-> FALSE, author |-> <<>>, year |-> <<>>]
        ELSE Bind(Least(stops), LAMBDA a :
                 [found |-> TRUE,
                  author |-> Slice(s, 0, a),
                  year |-> Slice(s, a, YearEnd(s, a))]))

\* ------------------------------------------------------------------------
\* search_pattern = \b([A-Z][a-zA-Z']+)\s+(\d{4}\s*[a-z]?)\b, with finditer()
\* ------------------------------------------------------------------------
AuthorChars == UpperChars \cup LowerChars \cup {"'"}

RECURSIVE AuthorRun(_, _)
AuthorRun(s, p) ==
    IF p + 1 <= Len(s) /\ s[p + 1] \in AuthorChars THEN 1 + AuthorRun(s, p + 1) ELSE 0

\* The match that starts right after offset p, or none.  Giving back an
\* element of the greedy [a-zA-Z']+ or \s+ leaves an element of the same class
\* next, which the rest of the pattern cannot match.
MatchAt(s, p) ==
    Bind(p + 1 + AuthorRun(s, p + 1), LAMBDA a :
    Bind(SpaceRun(s, a), LAMBDA w :
    Bind(YearEnd(s, a + w), LAMBDA e :
        IF /\ Boundary(s, p)
           /\ p + 1 <= Len(s)
           /\ s[p + 1] \in UpperChars
           /\ a >= p + 2
           /\ w >= 1
           /\ e # 0
        THEN [found |-> TRUE, start |-> p, end |-> e,
              author |-> Slice(s, p, a), year |-> Slice(s, a + w, e)]
        ELSE [found |-> FALSE, start |-> p, end |-> p,
              author |-> <<>>, year |-> <<>>])))

\* list(search_pattern.finditer(s)): leftmost first, not overlapping
RECURSIVE FindIter(_, _)
FindIter(s, pos) ==
    Bind({p \in pos..Len(s) : MatchAt(s, p).found}, LAMBDA starts :
        IF starts = {} THEN <<>>
        ELSE Bind(MatchAt(s, Least(starts)), LAMBDA match :
                 <<match>> \o FindIter(s, match.end)))

search_pattern(s) == Bind(s, LAMBDA text : FindIter(text, 0))

\* ------------------------------------------------------------------------
\* Entity guard: entity_pattern = (&#?\w+;) and protect_entity
\* ------------------------------------------------------------------------
RECURSIVE WordRun(_, _)
WordRun(s, p) ==
    IF p + 1 <= Len(s) /\ IsWord(s[p + 1]) THEN 1 + WordRun(s, p + 1) ELSE 0

\* The end offset of the entity that starts right after offset p, 0 for none.
EntityEnd(s, p) ==
    Bind(IF p + 2 <= Len(s) /\ s[p + 2] = "#" THEN 1 ELSE 0, LAMBDA h :
    Bind(WordRun(s, p + 1 + h), LAMBDA n :
    Bind(p + 1 + h + n + 1, LAMBDA e :
        IF /\ p + 1 <= Len(s)
           /\ s[p + 1] = "&"
           /\ n >= 1
           /\ e <= Len(s)
           /\ s[e] = ";"
        THEN e
        ELSE 0)))

\* one placeholder for every entity
PlaceholderReused(n) == "__ENTITY_0__"

\* f"__ENTITY_{uuid.uuid4().hex}__": the n-th value uuid4 returns in the run
Placeholder(n) == "__ENTITY_" \o ToString(n) \o "__"

\* entity_pattern.sub(protect_entity, s) from offset pos on, with n placeholders
\* generated so far: the protected text and the entries added to entity_map.
RECURSIVE ProtectFrom(_, _, _)
ProtectFrom(s, pos, n) ==
    Bind({p \in pos..Len(s) : EntityEnd(s, p) # 0}, LAMBDA starts :
        IF starts = {} THEN [text |-> Slice(s, pos, Len(s)), map |-> <<>>]
        ELSE Bind(Least(starts), LAMBDA p :
             Bind(EntityEnd(s, p), LAMBDA e :
             Bind(ProtectFrom(s, e, n + 1), LAMBDA rest :
                 [text |-> Slice(s, pos, p) \o <<Placeholder(n + 1)>> \o rest.text,
                  map |-> <<[placeholder |-> Placeholder(n + 1),
                             entity |-> Slice(s, p, e)]>> \o rest.map]))))

protect_entity(s, n) ==
    Bind(s, LAMBDA text : Bind(n, LAMBDA count : ProtectFrom(text, 0, count)))

\* str.replace(placeholder, entity)
RECURSIVE Replace(_, _, _)
Replace(s, placeholder, entity) ==
    IF s = <<>> THEN <<>>
    ELSE (IF Head(s) = placeholder THEN entity ELSE <<Head(s)>>)
         \o Replace(Tail(s), placeholder, entity)

\* for placeholder, entity in entity_map.items(): replace
RECURSIVE Restore(_, _)
Restore(s, map) ==
    IF map = <<>> THEN s
    ELSE Bind(Replace(s, Head(map).placeholder, Head(map).entity), LAMBDA replaced :
             Restore(replaced, Tail(map)))

\* ------------------------------------------------------------------------
\* Bibliography indexer
\* ------------------------------------------------------------------------
\* s.split(',')[0]
RECURSIVE BeforeComma(_)
BeforeComma(s) ==
    IF s = <<>> \/ Head(s) = "," THEN <<>> ELSE <<Head(s)>> \o BeforeComma(Tail(s))

RECURSIVE UntilSpace(_)
UntilSpace(s) ==
    IF s = <<>> \/ Head(s) \in SpaceChars THEN <<>> ELSE <<Head(s)>> \o UntilSpace(Tail(s))

\* s.split(): the tokens between runs of whitespace
RECURSIVE Split(_)
Split(s) ==
    Bind(LStrip(s), LAMBDA r :
        IF r = <<>> THEN <<>>
        ELSE Bind(UntilSpace(r), LAMBDA tok :
                 <<tok>> \o Split(Slice(r, Len(tok), Len(r)))))

\* the key with the surname as it is written
NormalizedKeyAsWritten(surname, year) == surname \o RemoveSpace(year)

\* primary_author_surname.lower() + re.sub(r'\s', '', year)
NormalizedKey(surname, year) == Lower(surname) \o RemoveSpace(year)

\* bib_data[normalized_key].append({"id": ..., "filename": ...})
AppendEntry(data, key, entry) ==
    IF key \in DOMAIN data
    THEN [data EXCEPT ![key] = Append(@, entry)]
    ELSE [k \in DOMAIN data \cup {key} |-> IF k = key THEN <<entry>> ELSE data[k]]

\* the iteration without the handler of lines 55-56: the IndexError leaves the loop
IndexItemNoCatch(data, item, filename) ==
    Bind(citation_pattern(Strip(item.text)), LAMBDA match :
        IF ~match.found \/ Strip(match.author) = <<>>
        THEN [data |-> data, raised |-> FALSE]
        ELSE Bind(Split(BeforeComma(Strip(match.author))), LAMBDA tokens :
                 IF tokens = <<>> THEN [data |-> data, raised |-> TRUE]
                 ELSE [data |-> AppendEntry(data, NormalizedKey(tokens[1], match.year),
                                            [id |-> item.id, filename |-> filename]),
                       raised |-> FALSE]))

\* One iteration of the loop over bib_soup.find_all('li', id=True): the index
\* after it, and whether an exception left the loop.  The IndexError of
\* split()[0] on an empty list is caught and the item skipped.
IndexItem(data, item, filename) ==
    Bind(Strip(item.text), LAMBDA item_text :
    Bind(citation_pattern(item_text), LAMBDA match :
        IF ~match.found THEN [data |-> data, raised |-> FALSE]
        ELSE Bind(Strip(match.author), LAMBDA author_part :
             Bind(Split(BeforeComma(author_part)), LAMBDA tokens :
                 IF author_part = <<>> THEN [data |-> data, raised |-> FALSE]
                 ELSE IF tokens = <<>> THEN [data |-> data, raised |-> FALSE]
                 ELSE [data |-> AppendEntry(data, NormalizedKey(tokens[1], match.year),
                                            [id |-> item.id, filename |-> filename]),
                       raised |-> FALSE]))))

\* ------------------------------------------------------------------------
\* Citation scanner and link rewriter
\* ------------------------------------------------------------------------
TextFragment(s) == [tag |-> "", text |-> s, href |-> <<>>]

\* chapter_soup.new_tag("a", attrs={"class": "xref", "href": f"{filename}#{id}"})
\* with .string = year_in_text
LinkFragment(entry, year_in_text) ==
    [tag |-> "a", text |-> year_in_text, href |-> <<entry.filename, entry.id>>]

\* the key without the suffix letter of the year
LookupKeyNoSuffix(match) == Lower(match.author) \o SubSeq(match.year, 1, 4)

\* author_in_text.lower() + re.sub(r'\s', '', year_in_text)
LookupKey(match) == Lower(match.author) \o RemoveSpace(match.year)

\* the entry appended last
PickLast(entries) == entries[Len(entries)]

\* bib_data[lookup_key][0]
PickEntry(entries) == entries[1]

\* f"{author_in_text} "
AuthorText(match) == match.author \o <<" ">>

\* What one match appends to new_content
MatchFragments(original_text, match, data) ==
    IF LookupKey(match) \in DOMAIN data
    THEN <<TextFragment(AuthorText(match)),
           LinkFragment(PickEntry(data[LookupKey(match)]), match.year)>>
    ELSE <<TextFragment(Slice(original_text, match.start, match.end))>>

\* The loop over matches from the k-th on, with last_index as it stands
RECURSIVE RewriteFrom(_, _, _, _, _)
RewriteFrom(original_text, matches, k, last_index, data) ==
    IF k > Len(matches)
    THEN IF last_index < Len(original_text)
         THEN <<TextFragment(Slice(original_text, last_index, Len(original_text)))>>
         ELSE <<>>
    ELSE (IF matches[k].start > last_index
          THEN <<TextFragment(Slice(original_text, last_index, matches[k].start))>>
          ELSE <<>>)
         \o MatchFragments(original_text, matches[k], data)
         \o RewriteFrom(original_text, matches, k + 1, matches[k].end, data)

\* new_content for a text element that has matches
NewContent(original_text, data) ==
    Bind(search_pattern(original_text), LAMBDA matches :
        RewriteFrom(original_text, matches, 1, 0, data))

\* text_element.parent.name
ParentName(node) == IF node.path = <<>> THEN "body" ELSE node.path[Len(node.path)]

SkippedParents == {"a", "script", "style"}

\* the test of line 82
IsSkipped(node) == ParentName(node) \in SkippedParents

\* One iteration of the loop over text_elements: the fragments that stand in
\* the tree where the text element stood.
RewriteElement(node, data) ==
    Bind(node.frags[1].text, LAMBDA original_text :
        IF IsSkipped(node) THEN node
        ELSE IF search_pattern(original_text) = <<>> THEN node
        ELSE [node EXCEPT !.frags = NewContent(original_text, data)])

\* links_created after the element
LinksIn(frags) == Len(SelectSeq(frags, LAMBDA f : f.tag = "a"))

\* ------------------------------------------------------------------------
\* Inputs
\* ------------------------------------------------------------------------
\* at most MaxBib li elements in the bibliography document
MaxBib == 2

\* at most MaxNodes text elements in the body of the chapter document
MaxNodes == 1

\* at most MaxReq concurrent requests for one processed file
MaxReq == 3

\* the texts given to the entity guard on its own have at most MaxText elements
MaxText == 7

Smith == <<"S","m","i","t","h">>

Jones == <<"J","o","n","e","s">>

Y1999 == <<"1","9","9","9">>

Y1999a == <<"1","9","9","9","a">>

\* "Smith, J. (1999)."
EntryCanonical ==
    <<"S","m","i","t","h",","," ","J","."," ","(","1","9","9","9",")",".">>

\* "Smith, J. (1999a)."
EntrySuffix ==
    <<"S","m","i","t","h",","," ","J","."," ","(","1","9","9","9","a",")",".">>

\* " 1999. Anon.": nothing before the year
EntryEmptyAuthor ==
    <<" ","1","9","9","9","."," ","A","n","o","n",".">>

\* ", J. 1999": nothing before the first comma
EntryNoSurname ==
    <<","," ","J","."," ","1","9","9","9">>

\* "Jones, n.d."
EntryNoYear ==
    <<"J","o","n","e","s",","," ","n",".","d",".">>

\* "Jones, K. 2001 b."
EntrySpacedYear ==
    <<"J","o","n","e","s",","," ","K","."," ","2","0","0","1"," ","b",".">>

BibTexts ==
    {EntryCanonical, EntrySuffix, EntryEmptyAuthor, EntryNoSurname, EntryNoYear,
     EntrySpacedYear}

\* an li element: its flattened text, and whether it carries an id attribute
LiChoices ==
    {[text |-> x, hasId |-> TRUE] : x \in BibTexts}
    \cup {[text |-> EntryCanonical, hasId |-> FALSE]}

\* "see Smith 1999, p"
TextPlain ==
    <<"s","e","e"," ","S","m","i","t","h"," ","1","9","9","9",","," ","p">>

\* "Smith  1999a": two spaces
TextWide ==
    <<"S","m","i","t","h"," "," ","1","9","9","9","a">>

\* "Smith 1999"
TextBare ==
    <<"S","m","i","t","h"," ","1","9","9","9">>

\* "&amp; Jones 2001 b &#38;"
TextEntities ==
    <<"&","a","m","p",";"," ","J","o","n","e","s"," ","2","0","0","1"," ","b"," ",
      "&","#","3","8",";">>

\* "Smith 1999 and Smith 1999a."
TextTwo ==
    <<"S","m","i","t","h"," ","1","9","9","9"," ","a","n","d"," ",
      "S","m","i","t","h"," ","1","9","9","9","a",".">>

\* "no citation &lt; here"
TextNone ==
    <<"n","o"," ","c","i","t","a","t","i","o","n"," ","&","l","t",";"," ",
      "h","e","r","e">>

\* a text element of the chapter: the names of the elements that contain it,
\* from the child of body down to its parent, and its text
NodeChoices ==
    {[path |-> <<"p">>, text |-> x] :
        x \in {TextPlain, TextWide, TextEntities, TextTwo, TextNone}}
    \cup {[path |-> <<"p", "a">>, text |-> TextBare],
          [path |-> <<"p", "a", "em">>, text |-> TextBare],
          [path |-> <<"script">>, text |-> TextBare]}

SeqsUpTo(S, n) == UNION {[1..k -> S] : k \in 0..n}

\* the bibliography files: a document whose k-th li element has the id k, or
\* bytes that are not UTF-8
Bibliographies ==
    {[readable |-> TRUE,
      lis |-> [k \in DOMAIN lis |->
                  [id |-> k, hasId |-> lis[k].hasId, text |-> lis[k].text]]] :
        lis \in SeqsUpTo(LiChoices, MaxBib)}
    \cup {[readable |-> FALSE, lis |-> <<>>]}

\* the chapter files: a document with a body and its text elements, a document
\* without a body, or bytes that are not UTF-8
Chapters ==
    {[readable |-> TRUE, body |-> TRUE, nodes |-> ns] :
        ns \in SeqsUpTo(NodeChoices, MaxNodes)}
    \cup {[readable |-> TRUE, body |-> FALSE, nodes |-> <<>>],
          [readable |-> FALSE, body |-> FALSE, nodes |-> <<>>]}

\* os.path.basename(bib_file_path)
BibFilename == "bib.xhtml"

\* the texts the entity guard is applied to on its own
GuardChars == {"&", "#", "a", ";"}

GuardTexts == SeqsUpTo(GuardChars, MaxText)

\* ------------------------------------------------------------------------
\* State
\* ------------------------------------------------------------------------
VARIABLES
    bib,                \* the bibliography document (input)
    chapter,            \* the chapter document (input)
    pc,                 \* where process_xhtml_files stands
    items,              \* bib_soup.find_all('li', id=True)
    i,                  \* the loop over items
    bib_data,           \* normalized key -> list of {id, filename}
    protected_content,  \* the chapter text with placeholders
    entity_map,         \* placeholder -> entity, in insertion order
    chapter_soup,       \* the parsed chapter: its text elements, rewritten in place
    t,                  \* the loop over text_elements
    links_created,
    final_content,
    outfile,            \* the file at output_filepath
    ret,                \* what process_xhtml_files returned
    guard,              \* the entity guard applied to one text
    dl                  \* the download_file requests for outfile

vars == <<bib, chapter, pc, items, i, bib_data, protected_content, entity_map,
          chapter_soup, t, links_created, final_content, outfile, ret, guard, dl>>

runVars == <<bib, chapter, pc, items, i, bib_data, protected_content, entity_map,
             chapter_soup, t, links_created, final_content, ret>>

NoFile == [exists |-> FALSE, content |-> <<>>]

GuardIdle == [pc |-> "idle", text |-> <<>>, protected |-> <<>>, map |-> <<>>,
              restored |-> <<>>]

\* the locals of process_xhtml_files before its first statement
RunLocals ==
    /\ items = <<>>
    /\ i = 1
    /\ bib_data = <<>>
    /\ protected_content = <<>>
    /\ entity_map = <<>>
    /\ chapter_soup = <<>>
    /\ t = 1
    /\ links_created = 0
    /\ final_content = <<>>
    /\ ret = "pending"

\* upload_page has saved the two uploads and calls process_xhtml_files
Init ==
    /\ bib \in Bibliographies
    /\ chapter \in Chapters
    /\ pc = "START"
    /\ RunLocals
    /\ outfile = NoFile
    /\ guard = GuardIdle
    /\ dl = <<>>

\* ------------------------------------------------------------------------
\* process_xhtml_files
\* ------------------------------------------------------------------------
\* return None: from lines 60 and 76, and from the handler of lines 130-133
ReturnNone ==
    /\ pc' = "FAILED"
    /\ ret' = "None"

\* Lines 34-35: the bibliography is read and parsed.  A file that is not
\* UTF-8 raises in the read; the handler of line 130 returns None.
ParseBibliography ==
    /\ pc = "START"
    /\ IF bib.readable
       THEN /\ items' = SelectSeq(bib.lis, LAMBDA li : li.hasId)
            /\ pc' = "INDEX_BIBLIOGRAPHY"
            /\ ret' = ret
       ELSE /\ ReturnNone
            /\ items' = items
    /\ UNCHANGED <<bib, chapter, i, bib_data, protected_content, entity_map,
                   chapter_soup, t, links_created, final_content, outfile, guard, dl>>

\* the iteration of the loop of line 40 on the item it stands at
IndexStep == IndexItem(bib_data, items[i], BibFilename)

\* Lines 40-56: one iteration of the loop over the identified li elements
IndexEntry ==
    /\ pc = "INDEX_BIBLIOGRAPHY"
    /\ i <= Len(items)
    /\ IF IndexStep.raised
       THEN /\ ReturnNone
            /\ UNCHANGED <<bib_data, i>>
       ELSE /\ bib_data' = IndexStep.data
            /\ i' = i + 1
            /\ UNCHANGED <<pc, ret>>
    /\ UNCHANGED <<bib, chapter, items, protected_content, entity_map,
                   chapter_soup, t, links_created, final_content, outfile, guard, dl>>

\* the index is never found empty
IndexIsEmptyNever(data) == FALSE

\* the test of line 58: "if not bib_data"
IndexIsEmpty(data) == DOMAIN data = {}

\* Lines 58-60, after the loop
CheckIndex ==
    /\ pc = "INDEX_BIBLIOGRAPHY"
    /\ i > Len(items)
    /\ IF IndexIsEmpty(bib_data)
       THEN ReturnNone
       ELSE /\ pc' = "READ_CHAPTER"
            /\ ret' = ret
    /\ UNCHANGED <<bib, chapter, items, i, bib_data, protected_content, entity_map,
                   chapter_soup, t, links_created, final_content, outfile, guard, dl>>

\* Lines 63-64: the chapter file is read; a file that is not UTF-8 raises.
ReadChapter ==
    /\ pc = "READ_CHAPTER"
    /\ IF chapter.readable
       THEN /\ pc' = "PROTECT_ENTITIES"
            /\ ret' = ret
       ELSE ReturnNone
    /\ UNCHANGED <<bib, chapter, items, i, bib_data, protected_content, entity_map,
                   chapter_soup, t, links_created, final_content, outfile, guard, dl>>

\* entity_pattern.sub over the file's content: the text elements in document
\* order, the k-th on, with n placeholders generated so far
RECURSIVE ProtectNodes(_, _, _)
ProtectNodes(nodes, k, n) ==
    IF k > Len(nodes) THEN [nodes |-> <<>>, map |-> <<>>]
    ELSE Bind(protect_entity(nodes[k].text, n), LAMBDA here :
         Bind(ProtectNodes(nodes, k + 1, n + Len(here.map)), LAMBDA rest :
             [nodes |-> <<[path |-> nodes[k].path, text |-> here.text]>> \o rest.nodes,
              map |-> here.map \o rest.map]))

\* entity_pattern.sub(protect_entity, chapter_content)
ProtectedChapter == ProtectNodes(chapter.nodes, 1, 0)

\* Lines 66-72
ProtectEntities ==
    /\ pc = "PROTECT_ENTITIES"
    /\ protected_content' = ProtectedChapter.nodes
    /\ entity_map' = ProtectedChapter.map
    /\ pc' = "PARSE_CHAPTER"
    /\ UNCHANGED <<bib, chapter, items, i, bib_data, chapter_soup, t, links_created,
                   final_content, outfile, ret, guard, dl>>

\* chapter_soup.body.find_all(string=True) on the parsed protected content
ParsedNodes(content) ==
    [k \in DOMAIN content |->
        [path |-> content[k].path, frags |-> <<TextFragment(content[k].text)>>]]

\* the chapter goes on to the scan whether or not it has a body
ParseChapterNoCheck ==
    /\ pc = "PARSE_CHAPTER"
    /\ chapter_soup' = ParsedNodes(protected_content)
    /\ pc' = "SCAN_AND_REWRITE"
    /\ UNCHANGED <<bib, chapter, items, i, bib_data, protected_content, entity_map,
                   t, links_created, final_content, outfile, ret, guard, dl>>

\* Lines 74-79
ParseChapter ==
    /\ pc = "PARSE_CHAPTER"
    /\ IF ~chapter.body
       THEN /\ ReturnNone
            /\ UNCHANGED chapter_soup
       ELSE /\ chapter_soup' = ParsedNodes(protected_content)
            /\ pc' = "SCAN_AND_REWRITE"
            /\ ret' = ret
    /\ UNCHANGED <<bib, chapter, items, i, bib_data, protected_content, entity_map,
                   t, links_created, final_content, outfile, guard, dl>>

\* Lines 81-112: one iteration of the loop over text_elements
RewriteNode ==
    /\ pc = "SCAN_AND_REWRITE"
    /\ t <= Len(chapter_soup)
    /\ chapter_soup' = [chapter_soup EXCEPT ![t] = RewriteElement(@, bib_data)]
    /\ links_created' = links_created
                        + LinksIn(RewriteElement(chapter_soup[t], bib_data).frags)
    /\ t' = t + 1
    /\ UNCHANGED <<bib, chapter, pc, items, i, bib_data, protected_content,
                   entity_map, final_content, outfile, ret, guard, dl>>

\* Line 119: str(chapter_soup), after the loop
Serialize ==
    /\ pc = "SCAN_AND_REWRITE"
    /\ t > Len(chapter_soup)
    /\ final_content' = chapter_soup
    /\ pc' = "RESTORE_ENTITIES"
    /\ UNCHANGED <<bib, chapter, items, i, bib_data, protected_content, entity_map,
                   chapter_soup, t, links_created, outfile, ret, guard, dl>>

\* final_content.replace(placeholder, entity) for every entry of the map, on the
\* serialized document: on the text of every fragment
RestoreDocument(doc, map) ==
    [k \in DOMAIN doc |->
        [doc[k] EXCEPT !.frags =
            [f \in DOMAIN doc[k].frags |->
                [doc[k].frags[f] EXCEPT !.text = Restore(@, map)]]]]

\* Lines 120-122
RestoreEntities ==
    /\ pc = "RESTORE_ENTITIES"
    /\ final_content' = RestoreDocument(final_content, entity_map)
    /\ pc' = "WRITE_OUTPUT"
    /\ UNCHANGED <<bib, chapter, items, i, bib_data, protected_content, entity_map,
                   chapter_soup, t, links_created, outfile, ret, guard, dl>>

\* Lines 124-128
WriteOutput ==
    /\ pc = "WRITE_OUTPUT"
    /\ outfile' = [exists |-> TRUE, content |-> final_content]
    /\ ret' = "output_filepath"
    /\ pc' = "DONE"
    /\ UNCHANGED <<bib, chapter, items, i, bib_data, protected_content, entity_map,
                   chapter_soup, t, links_created, final_content, guard, dl>>

Next ==
    \/ ParseBibliography
    \/ IndexEntry
    \/ CheckIndex
    \/ ReadChapter
    \/ ProtectEntities
    \/ ParseChapter
    \/ RewriteNode
    \/ Serialize
    \/ RestoreEntities
    \/ WriteOutput

Spec == Init /\ [][Next]_vars

\* process_xhtml_files is straight-line sequential code: it keeps running
\* until it returns.
FairSpec == Spec /\ WF_vars(Next)

\* ------------------------------------------------------------------------
\* The entity guard on its own: protect, then restore, with nothing in between
\* ------------------------------------------------------------------------
\* no run of process_xhtml_files is under way
RunIdle ==
    /\ bib = [readable |-> FALSE, lis |-> <<>>]
    /\ chapter = [readable |-> FALSE, body |-> FALSE, nodes |-> <<>>]
    /\ pc = "IDLE"
    /\ RunLocals

GuardInit ==
    /\ RunIdle
    /\ outfile = NoFile
    /\ guard \in {[GuardIdle EXCEPT !.pc = "protect", !.text = x] : x \in GuardTexts}
    /\ dl = <<>>

\* Lines 66-72 on guard.text
GuardProtect ==
    /\ guard.pc = "protect"
    /\ guard' = [guard EXCEPT !.protected = protect_entity(guard.text, 0).text,
                              !.map = protect_entity(guard.text, 0).map,
                              !.pc = "restore"]
    /\ UNCHANGED <<runVars, outfile, dl>>

\* Lines 120-122 on guard.protected
GuardRestore ==
    /\ guard.pc = "restore"
    /\ guard' = [guard EXCEPT !.restored = Restore(guard.protected, guard.map),
                              !.pc = "done"]
    /\ UNCHANGED <<runVars, outfile, dl>>

GuardNext == GuardProtect \/ GuardRestore

\* the entity guard on every text of GuardTexts, and inside the runs
SpecGuard == (Init \/ GuardInit) /\ [][Next \/ GuardNext]_vars

\* ------------------------------------------------------------------------
\* download_file: concurrent requests for the file a run has written
\* ------------------------------------------------------------------------
Requests == 1..MaxReq

\* the document a finished run has left at output_filepath
ProcessedContent ==
    <<[path |-> <<"p">>, frags |-> <<TextFragment(TextBare)>>]>>

DownloadInit ==
    /\ RunIdle
    /\ outfile = [exists |-> TRUE, content |-> ProcessedContent]
    /\ guard = GuardIdle
    /\ dl = [r \in Requests |-> [pc |-> "open", return_data |-> <<>>, response |-> "none"]]

\* Lines 214-217: FileNotFoundError is answered with the redirect to upload_page
NotFound(r) ==
    dl' = [dl EXCEPT ![r].pc = "done", ![r].response = "redirect"]

\* Line 198: open(filepath, 'rb')
DownloadOpen(r) ==
    /\ dl[r].pc = "open"
    /\ IF outfile.exists
       THEN dl' = [dl EXCEPT ![r].pc = "read"]
       ELSE NotFound(r)
    /\ UNCHANGED <<runVars, outfile, guard>>

\* Lines 199-202: the open file is read, also if it has been unlinked since
DownloadRead(r) ==
    /\ dl[r].pc = "read"
    /\ dl' = [dl EXCEPT ![r].pc = "remove", ![r].return_data = outfile.content]
    /\ UNCHANGED <<runVars, outfile, guard>>

\* the file is removed if it is there, and the data sent in either case
DownloadRemoveIfExists(r) ==
    /\ dl[r].pc = "remove"
    /\ outfile' = [outfile EXCEPT !.exists = FALSE]
    /\ dl' = [dl EXCEPT ![r].pc = "send"]
    /\ UNCHANGED <<runVars, guard>>

\* Line 205: os.remove(filepath) raises FileNotFoundError when the file is gone
DownloadRemove(r) ==
    /\ dl[r].pc = "remove"
    /\ IF outfile.exists
       THEN /\ outfile' = [outfile EXCEPT !.exists = FALSE]
            /\ dl' = [dl EXCEPT ![r].pc = "send"]
       ELSE /\ NotFound(r)
            /\ UNCHANGED outfile
    /\ UNCHANGED <<runVars, guard>>

\* Lines 208-213: send_file(return_data, ...)
DownloadSend(r) ==
    /\ dl[r].pc = "send"
    /\ dl' = [dl EXCEPT ![r].pc = "done", ![r].response = "send_file"]
    /\ UNCHANGED <<runVars, outfile, guard>>

download_file(r) ==
    \/ DownloadOpen(r)
    \/ DownloadRead(r)
    \/ DownloadRemove(r)
    \/ DownloadSend(r)

DownloadNext == \E r \in Requests : download_file(r)

SpecDownload == DownloadInit /\ [][DownloadNext]_vars

\* ------------------------------------------------------------------------
\* What the properties below speak about
\* ------------------------------------------------------------------------
Terminated == pc \in {"DONE", "FAILED"}

\* the text elements the loop of line 81 has been through
Processed == {k \in DOMAIN chapter_soup : k < t}

\* the fragments read in order, a link contributing its visible text
RECURSIVE VisibleText(_)
VisibleText(frags) ==
    IF frags = <<>> THEN <<>> ELSE Head(frags).text \o VisibleText(Tail(frags))

ButLast(s) == IF s = <<>> THEN <<>> ELSE SubSeq(s, 1, Len(s) - 1)

\* the generated links of a fragment list: the author word written before the
\* link, the link's visible text and its target
LinksOf(frags) ==
    {[author |-> IF j > 1 THEN ButLast(frags[j - 1].text) ELSE <<>>,
      year |-> frags[j].text,
      href |-> frags[j].href] : j \in {x \in DOMAIN frags : frags[x].tag = "a"}}

\* all generated links of the chapter as it stands
AllLinks == UNION {LinksOf(chapter_soup[k].frags) : k \in DOMAIN chapter_soup}

\* the identified li elements
Identified == {k \in DOMAIN bib.lis : bib.lis[k].hasId}

\* the normalized keys an li element is indexed under: none or one
KeysOf(li) == DOMAIN IndexItem(<<>>, li, BibFilename).data

\* the library's entries that have a surname and a year, and the three that
\* lack the year, the author part, and the surname token
UsableTexts == {EntryCanonical, EntrySuffix, EntrySpacedYear}

MalformedTexts == {EntryNoYear, EntryEmptyAuthor, EntryNoSurname}

UsableEntries == {k \in Identified : bib.lis[k].text \in UsableTexts}

PlaceholdersIn(s) == {k \in DOMAIN s : IsPlaceholder(s[k])}

\* ------------------------------------------------------------------------
\* C1  All-or-nothing.  A run whose bibliography has no usable entry returns
\* None and writes no output; every run that returns None (empty index,
\* unreadable file, chapter without body) has written no output; no output
\* exists before the run is done; and the output of a successful run is the
\* whole chapter, every text element rewritten and every entity restored.
\* ------------------------------------------------------------------------
ExpectedOutput ==
    RestoreDocument(
        [k \in DOMAIN protected_content |->
            RewriteElement(ParsedNodes(protected_content)[k], bib_data)],
        entity_map)

SameKeyEntries(link) ==
    {k \in Identified : NormalizedKey(link.author, link.year) \in KeysOf(bib.lis[k])}

Minimum(S) == CHOOSE x \in S : \A y \in S : x <= y

\* C2: every link targets the first entry, in document order, of its key
C2_TieBreakFirst ==
    \A link \in AllLinks :
        /\ SameKeyEntries(link) # {}
        /\ link.href = <<BibFilename, bib.lis[Minimum(SameKeyEntries(link))].id>>

\* two entries with one key, and a link made for a citation with that key
C2_Witness ==
    /\ pc = "DONE"
    /\ \E link \in AllLinks : Cardinality(SameKeyEntries(link)) >= 2

\* ------------------------------------------------------------------------
\* C3  No double-linking, as claimed: a text element that lies inside an "a"
\* element, at any depth, keeps exactly its original content.
\* ------------------------------------------------------------------------
InsideHyperlink(k) == "a" \in Range(chapter_soup[k].path)

\* C3: text inside an "a" element, at any depth, is left as it was
C3_NoDoubleLinking ==
    \A k \in DOMAIN chapter_soup :
        InsideHyperlink(k) =>
            chapter_soup[k].frags = <<TextFragment(protected_content[k].text)>>

\* ------------------------------------------------------------------------
\* C4  Text preservation, as claimed: the fragments that replace a text
\* element spell its original text exactly, and hold one link per match whose
\* key is in the index.
\* ------------------------------------------------------------------------
MatchesInIndex(text) ==
    {k \in DOMAIN search_pattern(text) :
        LookupKey(search_pattern(text)[k]) \in DOMAIN bib_data}

\* C4: the fragments of a rewritten text element spell its original text,
\* with one link per match whose key is in the index
C4_TextPreserved ==
    \A k \in Processed :
        ~IsSkipped(chapter_soup[k]) =>
            /\ VisibleText(chapter_soup[k].frags) = protected_content[k].text
            /\ LinksIn(chapter_soup[k].frags)
                  = Cardinality(MatchesInIndex(protected_content[k].text))

\* ------------------------------------------------------------------------
\* C5  Entity round-trip.  Restoring the protected text with the map built by
\* protection gives back the original text; every entity occurrence has a
\* placeholder of its own, which stands once in the protected text; and no
\* placeholder is left in the output of a successful run.
\* ------------------------------------------------------------------------
FreshPlaceholders(text, map) ==
    /\ \A a, b \in DOMAIN map : a # b => map[a].placeholder # map[b].placeholder
    /\ \A a \in DOMAIN map :
          Cardinality({k \in DOMAIN text : text[k] = map[a].placeholder}) = 1
    /\ Cardinality(PlaceholdersIn(text)) = Len(map)
    /\ \A a \in DOMAIN map :
          /\ Head(map[a].entity) = "&"
          /\ map[a].entity[Len(map[a].entity)] = ";"
          /\ PlaceholdersIn(map[a].entity) = {}

RECURSIVE JoinTexts(_)
JoinTexts(nodes) ==
    IF nodes = <<>> THEN <<>> ELSE Head(nodes).text \o JoinTexts(Tail(nodes))

\* C5: restore after protect gives the original text, placeholders are fresh,
\* and none is left in the output
C5_EntityRoundTrip ==
    /\ guard.pc \in {"restore", "done"} =>
          FreshPlaceholders(guard.protected, guard.map)
    /\ guard.pc = "done" =>
          /\ guard.restored = guard.text
          /\ PlaceholdersIn(guard.restored) = {}
    /\ pc \in {"PARSE_CHAPTER", "SCAN_AND_REWRITE", "RESTORE_ENTITIES",
               "WRITE_OUTPUT", "DONE"} =>
          /\ FreshPlaceholders(JoinTexts(protected_content), entity_map)
          /\ \A k \in DOMAIN protected_content :
                Restore(protected_content[k].text, entity_map) = chapter.nodes[k].text
    /\ pc = "DONE" =>
          \A k \in DOMAIN outfile.content :
              PlaceholdersIn(VisibleText(outfile.content[k].frags)) = {}

\* a text with two different entities has gone through protect and restore
C5_Witness ==
    /\ guard.pc = "done"
    /\ Len(guard.map) = 2
    /\ guard.map[1].entity # guard.map[2].entity
    /\ guard.restored = guard.text

\* ------------------------------------------------------------------------
\* C6  Skip-not-fail.  An identified entry without a year, without an author
\* part or without a surname token is left out of the index and the loop goes
\* on: the index holds exactly the usable entries met so far, the run never
\* fails inside the loop, one usable entry beside one entry with an empty
\* author gives an index of one key, and with a usable entry and a chapter
\* that has a body the run succeeds.
\* ------------------------------------------------------------------------
IndexedIds == UNION {{e.id : e \in Range(bib_data[key])} : key \in DOMAIN bib_data}

\* C6: malformed entries are skipped, the loop goes on and the run succeeds
C6_SkipNotFail ==
    /\ IndexedIds = {items[k].id : k \in {x \in 1..(i - 1) : items[x].text \in UsableTexts}}
    /\ pc = "FAILED" => (items = <<>> \/ i > Len(items))
    /\ (/\ i > Len(items)
        /\ Len(items) = 2
        /\ EntryEmptyAuthor \in {items[k].text : k \in DOMAIN items}
        /\ \E k \in DOMAIN items : items[k].text \in UsableTexts)
          => Cardinality(DOMAIN bib_data) = 1
    /\ (Terminated /\ UsableEntries # {} /\ chapter.readable /\ chapter.body)
          => (pc = "DONE" /\ ret = "output_filepath")

\* the run is done on a bibliography of one well-formed entry and one entry
\* whose author part is empty
C6_Witness ==
    /\ pc = "DONE"
    /\ Len(items) = 2
    /\ EntryEmptyAuthor \in {items[k].text : k \in DOMAIN items}
    /\ EntryCanonical \in {items[k].text : k \in DOMAIN items}
    /\ Cardinality(DOMAIN bib_data) = 1
    /\ ret = "output_filepath"

\* ------------------------------------------------------------------------
\* C7  The year-letter suffix separates keys.  A generated link targets an
\* entry whose normalized key is the citation's lowercased author word plus
\* its year without whitespace, suffix letter included: a citation "1999a" is
\* never linked to "Smith, J. (1999)." and a citation "1999" never to
\* "Smith, J. (1999a)."
\* ------------------------------------------------------------------------
Target(link) == bib.lis[CHOOSE k \in Identified : bib.lis[k].id = link.href[2]]

\* C7: a link's target has exactly the citation's key, suffix letter included
C7_SuffixSeparatesKeys ==
    \A link \in AllLinks :
        /\ \E k \in Identified : bib.lis[k].id = link.href[2]
        /\ KeysOf(Target(link)) = {Lower(link.author) \o RemoveSpace(link.year)}
        /\ Target(link).text = EntryCanonical => RemoveSpace(link.year) = Y1999
        /\ Target(link).text = EntrySuffix => RemoveSpace(link.year) = Y1999a

\* "Smith 1999 and Smith 1999a." against a bibliography that holds only
\* "Smith, J. (1999a).": one link, for the second citation
C7_Witness ==
    /\ pc = "DONE"
    /\ {bib.lis[k].text : k \in Identified} = {EntrySuffix}
    /\ \E k \in DOMAIN chapter.nodes :
          /\ chapter.nodes[k].text = TextTwo
          /\ {link.year : link \in LinksOf(chapter_soup[k].frags)} = {Y1999a}

\* ------------------------------------------------------------------------
\* C8  Key normalization symmetry.  An entry "Surname, J. (Year)." is indexed
\* under lowercase(Surname) + Year, "Smith, J. (1999)." under smith1999, and
\* every scanned citation "Surname Year" of a rewritten text element is linked
\* to the first entry of that key.
\* ------------------------------------------------------------------------
Surnames == {Smith, Jones}

Years == {Y1999, Y1999a}

SurnameInitialsYear(surname, year) ==
    surname \o <<",", " ", "J", ".", " ", "(">> \o year \o <<")", ".">>

smith1999 == <<"s","m","i","t","h","1","9","9","9">>

\* C8: both sides derive the same key, and the citation is linked
C8_KeySymmetry ==
    \A surname \in Surnames, year \in Years :
        \A n \in 1..(i - 1) :
            items[n].text = SurnameInitialsYear(surname, year) =>
                /\ Lower(surname) \o year \in DOMAIN bib_data
                /\ items[n].text = EntryCanonical => smith1999 \in DOMAIN bib_data
                /\ \A k \in Processed :
                      \A m \in Range(search_pattern(protected_content[k].text)) :
                          (/\ ~IsSkipped(chapter_soup[k])
                           /\ m.author = surname
                           /\ m.year = year)
                          => \E link \in LinksOf(chapter_soup[k].frags) :
                                /\ link.author = surname
                                /\ link.year = year
                                /\ link.href = <<BibFilename,
                                                 bib_data[Lower(surname) \o year][1].id>>

\* "see Smith 1999, p" beside "Smith, J. (1999).": the citation is linked
C8_Witness ==
    /\ pc = "DONE"
    /\ \E n \in DOMAIN items : items[n].text = SurnameInitialsYear(Smith, Y1999)
    /\ \E k \in DOMAIN chapter.nodes :
          /\ chapter.nodes[k].text = TextPlain
          /\ \E link \in LinksOf(chapter_soup[k].frags) :
                link.author = Smith /\ link.year = Y1999

\* ------------------------------------------------------------------------
\* C9  Linear run pipeline.  The run goes through its stages in the order
\* index, protect, parse, scan and rewrite, serialize, restore, and never back;
\* the chapter is read only with a non-empty index; a chapter without a body
\* fails before any rewriting; entities are restored after the serialization
\* and before the output is written; and every run ends in DONE or FAILED.
\* ------------------------------------------------------------------------
Stages == <<"START", "INDEX_BIBLIOGRAPHY", "READ_CHAPTER", "PROTECT_ENTITIES",
            "PARSE_CHAPTER", "SCAN_AND_REWRITE", "RESTORE_ENTITIES",
            "WRITE_OUTPUT", "DONE", "FAILED">>

Rank(stage) == CHOOSE k \in DOMAIN Stages : Stages[k] = stage

After(stage) == Rank(pc) > Rank(stage) /\ pc # "FAILED"

StageOrder ==
    /\ pc \in Range(Stages)
    /\ After("INDEX_BIBLIOGRAPHY") => (DOMAIN bib_data # {} /\ i = Len(items) + 1)
    /\ (protected_content # <<>> \/ entity_map # <<>>) => DOMAIN bib_data # {}
    /\ ~chapter.body => (chapter_soup = <<>> /\ links_created = 0 /\ ~After("PARSE_CHAPTER"))
    /\ chapter_soup # <<>> => Len(chapter_soup) = Len(protected_content)
    /\ After("SCAN_AND_REWRITE") => (t = Len(chapter_soup) + 1 /\ Len(final_content) = Len(chapter_soup))
    /\ ~After("SCAN_AND_REWRITE") => (final_content = <<>> /\ ~outfile.exists)
    /\ pc = "RESTORE_ENTITIES" => final_content = chapter_soup
    /\ After("RESTORE_ENTITIES") => final_content = RestoreDocument(chapter_soup, entity_map)
    /\ outfile.exists => (pc = "DONE" /\ outfile.content = final_content)

\* C9: the stages follow in their fixed order, never back, and every run ends
C9_LinearPipeline ==
    /\ [][/\ StageOrder
          /\ StageOrder'
          /\ Rank(pc') >= Rank(pc)
          /\ pc \notin {"DONE", "FAILED"}]_vars
    /\ <>Terminated

\* a run has gone through every stage and created a link
C9_Witness ==
    /\ pc = "DONE"
    /\ links_created > 0
    /\ entity_map # <<>>

\* ------------------------------------------------------------------------
\* C10  Single delivery.  Whatever the interleaving of the requests for one
\* processed file, at most one is answered with the file's content, every
\* other answered request gets the redirect, and once a request has been
\* answered with the content the file is gone.
\* ------------------------------------------------------------------------
Delivered == {r \in DOMAIN dl : dl[r].response = "send_file"}

\* C10: at most one request is answered with the content, the others with the
\* redirect, and after a delivery the file is gone
C10_SingleDelivery ==
    /\ Cardinality(Delivered) <= 1
    /\ Cardinality({r \in DOMAIN dl : dl[r].pc = "send"}) + Cardinality(Delivered) <= 1
    /\ \A r \in DOMAIN dl :
          /\ dl[r].pc = "done" => dl[r].response \in {"send_file", "redirect"}
          /\ dl[r].response = "send_file" => dl[r].return_data = ProcessedContent
    /\ Delivered # {} => ~outfile.exists

\* two requests have both read the file; one was answered with it, the other
\* with the redirect
C10_Witness ==
    \E r, q \in DOMAIN dl :
        /\ dl[r].response = "send_file"
        /\ dl[q].response = "redirect"
        /\ dl[q].return_data = ProcessedContent

====
